---- MODULE Spec2Model ----
(***************************************************************************)
(* Content resolution layer and document submission of the study-guides    *)
(* blog: src/lib/mdx.ts (enumerator, listings, resolver, adjacency), the   *)
(* create-document API handler, the new-document page, src/middleware.ts   *)
(* and scripts/new-doc.ts.                                                 *)
(*                                                                         *)
(* A string of the program is a sequence of one-character strings, except  *)
(* that the extension ".mdx" is one token.  A path is a sequence of names  *)
(* relative to the content root (src/content).                             *)
(***************************************************************************)
EXTENDS Integers, Sequences, FiniteSets, TLC

VARIABLES
    fs,       \* the content root: fs.tree maps a directory path to the names of
              \* its entries in readdir order, fs.files a file path to its text
    reqs,     \* create-document requests handled by concurrent server processes
    last,     \* the last call made and what it returned
    http      \* the last HTTP exchange: the request and what the middleware did

vars == <<fs, reqs, last, http>>

----------------------------------------------------------------------------
(* Bounds of the model *)

MaxFiles == 3          \* files in the content tree
MaxProcs == 2          \* server processes handling submissions at once

----------------------------------------------------------------------------
(* Strings *)

Digits == <<"0", "1", "2", "3", "4", "5", "6", "7", "8", "9">>
Lower == <<"a", "b", "c", "d", "e", "f", "g", "h", "i", "j", "k", "l", "m",
           "n", "o", "p", "q", "r", "s", "t", "u", "v", "w", "x", "y", "z">>
Upper == <<"A", "B", "C", "D", "E", "F", "G", "H", "I", "J", "K", "L", "M",
           "N", "O", "P", "Q", "R", "S", "T", "U", "V", "W", "X", "Y", "Z">>

Range(s) == {s[i] : i \in DOMAIN s}
IndexOf(s, c) == CHOOSE i \in DOMAIN s : s[i] = c

DigitChars == Range(Digits)
LowerChars == Range(Lower)
UpperChars == Range(Upper)
AlnumChars == DigitChars \cup LowerChars \cup UpperChars

IsDigit(c) == c \in DigitChars
IsLower(c) == c \in LowerChars
IsUpper(c) == c \in UpperChars
IsAlnum(c) == c \in AlnumChars

DigitValue == [c \in DigitChars |-> IndexOf(Digits, c) - 1]

Undefined == <<>>      \* undefined and '' are both falsy; neither is a name
Null == [null |-> TRUE]
MDX == ".mdx"

\* `${n}` for a non-negative integer
RECURSIVE NumToString(_)
NumToString(n) ==
    IF n < 10 THEN <<Digits[n + 1]>>
    ELSE NumToString(n \div 10) \o <<Digits[(n % 10) + 1]>>

\* parseInt(s) for a string of decimal digits
RECURSIVE parseInt(_)
parseInt(s) ==
    IF s = <<>> THEN 0
    ELSE 10 * parseInt(SubSeq(s, 1, Len(s) - 1)) + DigitValue[s[Len(s)]]

\* String.prototype.toLowerCase on letters
toLowerCase(s) ==
    [i \in DOMAIN s |-> IF IsUpper(s[i]) THEN Lower[IndexOf(Upper, s[i])] ELSE s[i]]

\* .replace(/[^a-z0-9]+/g, '-'): every run of other characters becomes a hyphen
RECURSIVE hyphenate(_, _)
hyphenate(s, i) ==
    IF i > Len(s) THEN <<>>
    ELSE IF IsDigit(s[i]) \/ IsLower(s[i]) THEN <<s[i]>> \o hyphenate(s, i + 1)
    ELSE IF i > 1 /\ ~(IsDigit(s[i - 1]) \/ IsLower(s[i - 1]))
    THEN hyphenate(s, i + 1)
    ELSE <<"-">> \o hyphenate(s, i + 1)

\* .replace(/^-|-$/g, ''): a hyphen that opens and one that closes are dropped
trimHyphens(s) ==
    LET a == IF s # <<>> /\ s[1] = "-" THEN Tail(s) ELSE s
    IN  IF a # <<>> /\ a[Len(a)] = "-" THEN SubSeq(a, 1, Len(a) - 1) ELSE a

\* slugify(text) of the new-doc script; the new-document page computes the slug
\* of a title by the same expression
slugify(text) == trimHyphens(hyphenate(toLowerCase(text), 1))

\* /^\d+$/.test(s)
AllDigits(s) == s # <<>> /\ \A i \in DOMAIN s : IsDigit(s[i])

\* Collation of String.prototype.localeCompare on alphanumeric strings:
\* digits before letters, letters in alphabetical order whatever their case;
\* strings equal up to case are ordered lower case first.
Primary ==
    [c \in AlnumChars |->
        IF IsDigit(c) THEN DigitValue[c]
        ELSE IF IsLower(c) THEN 9 + IndexOf(Lower, c)
        ELSE 9 + IndexOf(Upper, c)]

RECURSIVE LexCompare(_, _)
LexCompare(a, b) ==
    IF a = <<>> /\ b = <<>> THEN 0
    ELSE IF a = <<>> THEN -1
    ELSE IF b = <<>> THEN 1
    ELSE IF Head(a) < Head(b) THEN -1
    ELSE IF Head(a) > Head(b) THEN 1
    ELSE LexCompare(Tail(a), Tail(b))

CaseKey(c) == IF IsUpper(c) THEN 1 ELSE 0

localeCompare(a, b) ==
    LET p == LexCompare([i \in DOMAIN a |-> Primary[a[i]]],
                        [i \in DOMAIN b |-> Primary[b[i]]])
    IN  IF p # 0 THEN p
        ELSE LexCompare([i \in DOMAIN a |-> CaseKey(a[i])],
                        [i \in DOMAIN b |-> CaseKey(b[i])])

----------------------------------------------------------------------------
(* The file system under the content root *)

isDirectory(f, p) == p \in DOMAIN f.tree
isFile(f, p) == p \in DOMAIN f.files
existsSync(f, p) == isDirectory(f, p) \/ isFile(f, p)

\* item.endsWith('.mdx')
endsWithMdx(name) == name # <<>> /\ name[Len(name)] = MDX

\* path.basename(filePath).replace(/\.mdx$/, '')
basenameNoExt(p) ==
    LET name == p[Len(p)]
    IN  IF endsWithMdx(name) THEN SubSeq(name, 1, Len(name) - 1) ELSE name

parent(p) == SubSeq(p, 1, Len(p) - 1)

\* s with x inserted so that it becomes element i+1
InsertAt(s, i, x) == SubSeq(s, 1, i) \o <<x>> \o SubSeq(s, i + 1, Len(s))

Min(a, b) == IF a < b THEN a ELSE b

\* fs.mkdirSync(d, { recursive: true }): the directories of d that are missing
\* are created; a new entry takes the place pos (clamped) of its directory's
\* listing, readdir order being the file system's business.
RECURSIVE mkdirSync(_, _, _)
mkdirSync(f, d, pos) ==
    IF isDirectory(f, d) \/ d = <<>> THEN f
    ELSE LET g == mkdirSync(f, parent(d), pos)
             up == parent(d)
         IN  [tree |-> [g.tree EXCEPT ![up] =
                            InsertAt(@, Min(pos, Len(@)), d[Len(d)])]
                        @@ (d :> <<>>),
              files |-> g.files]

\* A write that refuses to replace an existing file (flag 'wx')
writeFileSyncExclusive(f, p, text, pos) ==
    IF existsSync(f, p) \/ ~isDirectory(f, parent(p))
    THEN [ok |-> FALSE, fs |-> f]
    ELSE [ok |-> TRUE,
          fs |-> [tree |-> [f.tree EXCEPT ![parent(p)] =
                                InsertAt(@, Min(pos, Len(@)), p[Len(p)])],
                  files |-> f.files @@ (p :> text)]]

\* fs.writeFileSync(p, text): [ok, fs].  Throws (ok = FALSE) when p is a
\* directory or its directory does not exist; replaces the text of an existing
\* file; otherwise creates the file.
writeFileSync(f, p, text, pos) ==
    IF isDirectory(f, p) \/ ~isDirectory(f, parent(p))
    THEN [ok |-> FALSE, fs |-> f]
    ELSE IF isFile(f, p)
    THEN [ok |-> TRUE, fs |-> [f EXCEPT !.files[p] = text]]
    ELSE [ok |-> TRUE,
          fs |-> [tree |-> [f.tree EXCEPT ![parent(p)] =
                                InsertAt(@, Min(pos, Len(@)), p[Len(p)])],
                  files |-> f.files @@ (p :> text)]]

\* fs.readFileSync(p, 'utf8') of a file that exists
readFileSync(f, p) == f.files[p]

\* js-yaml writing a string: a string that a plain scalar would not give back
\* as a string (an ISO date) is written in quotes
yamlDump(v) == [style |-> "quoted", text |-> v]

\* js-yaml reading the scalar of a date field: a quoted scalar is its string,
\* a plain ISO date is a timestamp and becomes a Date object
yamlLoad(scalar) ==
    IF scalar.style = "quoted" THEN scalar.text ELSE [Date |-> scalar.text]

\* gray-matter: the header block decoded as a record, and the body.  The date
\* field of a header is kept in the text as the YAML scalar written.
matter(source) ==
    [data |-> [k \in DOMAIN source.header |->
                  IF k = "date" THEN yamlLoad(source.header[k])
                  ELSE source.header[k]],
     content |-> source.body]

\* matter.stringify(content, data): the text with data as its header block
stringify(content, data) ==
    [header |-> [k \in DOMAIN data |->
                    IF k = "date" THEN yamlDump(data[k]) ELSE data[k]],
     body |-> content]

\* A text whose header block cannot be decoded: matter(source) throws
Malformed == [header |-> [malformed |-> TRUE], body |-> "T4"]
matterThrows(source) == "malformed" \in DOMAIN source.header

----------------------------------------------------------------------------
(* src/lib/mdx.ts: enumerator, listing, resolver *)

\* { ...data, ...over }: the fields of over replace those of data
Spread(data, over) ==
    [k \in DOMAIN data \cup DOMAIN over |->
        IF k \in DOMAIN over THEN over[k] ELSE data[k]]

\* getFilesRecursively(dir), for a directory that exists: the .mdx files under
\* dir in traversal order, each with the first and second component of
\* path.relative(contentDirectory, dir) as category and subcategory.
\* An enumerator that reports the nearest directory of a file as its subcategory
RECURSIVE getFilesFromNearest(_, _, _)
getFilesFromNearest(f, dir, i) ==
    IF i > Len(f.tree[dir]) THEN <<>>
    ELSE LET item == f.tree[dir][i]
             fullPath == Append(dir, item)
             category == IF Len(dir) >= 1 THEN dir[1] ELSE <<>>
             subcategory == IF Len(dir) >= 2 THEN dir[Len(dir)] ELSE Undefined
             here == IF isDirectory(f, fullPath)
                     THEN getFilesFromNearest(f, fullPath, 1)
                     ELSE IF endsWithMdx(item)
                     THEN <<[filePath |-> fullPath, category |-> category,
                             subcategory |-> subcategory]>>
                     ELSE <<>>
         IN  here \o getFilesFromNearest(f, dir, i + 1)

RECURSIVE getFilesFrom(_, _, _)
getFilesFrom(f, dir, i) ==
    IF i > Len(f.tree[dir]) THEN <<>>
    ELSE LET item == f.tree[dir][i]
             fullPath == Append(dir, item)
             category == IF Len(dir) >= 1 THEN dir[1] ELSE <<>>
             subcategory == IF Len(dir) >= 2 THEN dir[2] ELSE Undefined
             here == IF isDirectory(f, fullPath) THEN getFilesFrom(f, fullPath, 1)
                     ELSE IF endsWithMdx(item)
                     THEN <<[filePath |-> fullPath, category |-> category,
                             subcategory |-> subcategory]>>
                     ELSE <<>>
         IN  here \o getFilesFrom(f, dir, i + 1)

getFilesRecursively(f, dir) == getFilesFrom(f, dir, 1)

\* An entry in which the header's own fields win
postOfHeaderWins(f, file) ==
    Spread([slug |-> basenameNoExt(file.filePath),
            category |-> file.category,
            subcategory |-> file.subcategory],
           matter(readFileSync(f, file.filePath)).data)

\* The entry a listing makes for one enumerated file
postOf(f, file) ==
    Spread(matter(readFileSync(f, file.filePath)).data,
           [slug |-> basenameNoExt(file.filePath),
            category |-> file.category,
            subcategory |-> file.subcategory])

\* getPostsByCategory(category), for a category directory that exists
getPostsByCategory(f, category) ==
    LET fl == getFilesRecursively(f, <<category>>)
    IN  [i \in DOMAIN fl |-> postOf(f, fl[i])]

\* Lines 41-52 and 121-132: the loop over the enumerated files.  matter is
\* called on every file with nothing around it to catch what it throws.
postsOf(f, fl) ==
    IF \E i \in DOMAIN fl : matterThrows(readFileSync(f, fl[i].filePath))
    THEN [threw |-> TRUE, error |-> "YAMLException"]
    ELSE [threw |-> FALSE, posts |-> [i \in DOMAIN fl |-> postOf(f, fl[i])]]

\* getAllPosts(): the content root is walked
getAllPosts(f) == postsOf(f, getFilesRecursively(f, <<>>))

\* getPostsByCategory(category), as a call that may throw
getPostsByCategoryCall(f, category) ==
    IF ~isDirectory(f, <<category>>) THEN [threw |-> TRUE, error |-> "ENOENT"]
    ELSE postsOf(f, getFilesRecursively(f, <<category>>))

\* path.relative(categoryPath, dir), the components joined by '/'
RECURSIVE joinPath(_)
joinPath(parts) ==
    IF parts = <<>> THEN <<>>
    ELSE IF Len(parts) = 1 THEN parts[1]
    ELSE parts[1] \o <<"/">> \o joinPath(Tail(parts))

\* The first position of s that holds x, 0 when none does
FirstIndex(s, x) ==
    IF \E i \in DOMAIN s : s[i] = x
    THEN CHOOSE i \in DOMAIN s : s[i] = x /\ \A j \in 1 .. (i - 1) : s[j] # x
    ELSE 0

\* A front matter in which the header's own fields win
frontMatterHeaderWins(data, slug, category, foundSubcategory) ==
    Spread([slug |-> slug, category |-> category,
            subcategory |-> foundSubcategory], data)

\* The front matter the resolver builds for the file found at filePath
frontMatterOf(data, slug, category, foundSubcategory) ==
    Spread(data, [slug |-> slug, category |-> category,
                  subcategory |-> foundSubcategory])

\* A resolver that never looks in the hinted subdirectory
foundInHintNever(f, category, slug, subcategory) == FALSE

\* Lines 62-68: the file exists in the subdirectory the hint names
foundInHint(f, category, slug, subcategory) ==
    subcategory # Undefined
        /\ existsSync(f, <<category, subcategory, slug \o <<MDX>>>>)

\* A scan that falls back on the first file of the category
findBySlugOrFirst(fl, slug) ==
    LET k == FirstIndex([i \in DOMAIN fl |-> basenameNoExt(fl[i].filePath)], slug)
    IN  IF k # 0 THEN k ELSE IF fl # <<>> THEN 1 ELSE 0

\* Lines 72-76: files.find(file => path.basename(file.filePath, '.mdx') === slug),
\* as the position of the file found, 0 when find returns undefined
findBySlug(fl, slug) ==
    FirstIndex([i \in DOMAIN fl |-> basenameNoExt(fl[i].filePath)], slug)

\* getPostBySlug(category, slug, subcategory)
getPostBySlug(f, category, slug, subcategory) ==
    LET categoryPath == <<category>>
        subcategoryFilePath == <<category, subcategory, slug \o <<MDX>>>>
        inHint == foundInHint(f, category, slug, subcategory)
    IN  IF inHint /\ isDirectory(f, subcategoryFilePath)
        THEN [threw |-> TRUE, error |-> "EISDIR"]
        ELSE IF ~inHint /\ ~isDirectory(f, categoryPath)
        THEN [threw |-> TRUE, error |-> "ENOENT"]
        ELSE
        LET fl == IF inHint THEN <<>> ELSE getFilesRecursively(f, categoryPath)
            k == findBySlug(fl, slug)
        IN  IF ~inHint /\ k = 0
            THEN [threw |-> TRUE, error |-> "Post not found",
                  category |-> category, subcategory |-> subcategory, slug |-> slug]
            ELSE
            LET filePath == IF inHint THEN subcategoryFilePath ELSE fl[k].filePath
                m == matter(readFileSync(f, filePath))
                foundSubcategory ==
                    joinPath(SubSeq(filePath, 2, Len(filePath) - 1))
            IN  IF matterThrows(readFileSync(f, filePath))
                THEN [threw |-> TRUE, error |-> "YAMLException"]
                ELSE
                [threw |-> FALSE,
                 source |-> m.content,
                 frontMatter |-> frontMatterOf(m.data, slug, category, foundSubcategory)]

----------------------------------------------------------------------------
(* src/lib/mdx.ts: sibling ordering and adjacency *)

\* a.slug.match(/^([A-Z0-9]+)-/i)?.[1] || '': the alphanumeric run that opens
\* the slug, when a hyphen follows it
RECURSIVE alnumRun(_, _)
alnumRun(slug, i) ==
    IF i <= Len(slug) /\ IsAlnum(slug[i]) THEN alnumRun(slug, i + 1) ELSE i - 1

prefixOf(slug) ==
    LET n == alnumRun(slug, 1)
    IN  IF n >= 1 /\ n < Len(slug) /\ slug[n + 1] = "-" THEN SubSeq(slug, 1, n)
        ELSE <<>>

\* A comparator whose string comparison is the wrong way round
comparePostsReversed(a, b) ==
    LET aPrefix == prefixOf(a.slug)
        bPrefix == prefixOf(b.slug)
    IN  IF AllDigits(aPrefix) /\ AllDigits(bPrefix)
        THEN parseInt(aPrefix) - parseInt(bPrefix)
        ELSE localeCompare(bPrefix, aPrefix)

\* The comparator of the sort (lines 145-160)
comparePosts(a, b) ==
    LET aPrefix == prefixOf(a.slug)
        bPrefix == prefixOf(b.slug)
    IN  IF AllDigits(aPrefix) /\ AllDigits(bPrefix)
        THEN parseInt(aPrefix) - parseInt(bPrefix)
        ELSE localeCompare(aPrefix, bPrefix)

Reverse(s) == [i \in DOMAIN s |-> s[Len(s) + 1 - i]]

\* Array.prototype.sort of the runtime (V8), for an array shorter than 64: the
\* run that opens the array is found and, if strictly descending, reversed;
\* the other elements are placed by binary insertion.
RECURSIVE runEnd(_, _, _)
runEnd(w, idx, isDescending) ==
    IF idx > Len(w) THEN idx - 1
    ELSE LET order == comparePosts(w[idx], w[idx - 1])
         IN  IF (isDescending /\ order >= 0) \/ (~isDescending /\ order < 0)
             THEN idx - 1
             ELSE runEnd(w, idx + 1, isDescending)

RECURSIVE searchLeft(_, _, _, _)
searchLeft(w, pivot, left, right) ==
    IF left >= right THEN left
    ELSE LET mid == left + ((right - left) \div 2)
         IN  IF comparePosts(pivot, w[mid + 1]) < 0
             THEN searchLeft(w, pivot, left, mid)
             ELSE searchLeft(w, pivot, mid + 1, right)

RECURSIVE binaryInsertionSort(_, _)
binaryInsertionSort(w, start) ==
    IF start > Len(w) THEN w
    ELSE LET pivot == w[start]
             left == searchLeft(w, pivot, 0, start - 1)
         IN  binaryInsertionSort(
                 SubSeq(w, 1, left) \o <<pivot>> \o SubSeq(w, left + 1, start - 1)
                     \o SubSeq(w, start + 1, Len(w)),
                 start + 1)

sortPosts(w) ==
    IF Len(w) < 2 THEN w
    ELSE LET isDescending == comparePosts(w[2], w[1]) < 0
             run == runEnd(w, 3, isDescending)
             made == IF isDescending
                     THEN Reverse(SubSeq(w, 1, run)) \o SubSeq(w, run + 1, Len(w))
                     ELSE w
         IN  binaryInsertionSort(made, run + 1)

\* The sorted sibling sequence of getAdjacentPosts (lines 138-160)
sortedPosts(f, category, subcategory) ==
    LET posts == getPostsByCategory(f, category)
        filteredPosts ==
            IF subcategory # Undefined
            THEN SelectSeq(posts, LAMBDA post : post.subcategory = subcategory)
            ELSE posts
    IN  sortPosts(filteredPosts)

\* A next that steps over one sibling
neighboursSkipping(sorted, currentIndex) ==
    [prev |-> IF currentIndex > 0 THEN sorted[currentIndex] ELSE Null,
     next |-> IF currentIndex < Len(sorted) - 2 THEN sorted[currentIndex + 3]
              ELSE Null]

\* prev and next exchanged
neighboursSwapped(sorted, currentIndex) ==
    [next |-> IF currentIndex > 0 THEN sorted[currentIndex] ELSE Null,
     prev |-> IF currentIndex < Len(sorted) - 1 THEN sorted[currentIndex + 2]
              ELSE Null]

\* prev and next of the element at 0-based index currentIndex (-1: not found)
neighbours(sorted, currentIndex) ==
    [prev |-> IF currentIndex > 0 THEN sorted[currentIndex] ELSE Null,
     next |-> IF currentIndex < Len(sorted) - 1 THEN sorted[currentIndex + 2]
              ELSE Null]

\* getAdjacentPosts(category, currentSlug, subcategory)
getAdjacentPosts(f, category, currentSlug, subcategory) ==
    IF ~isDirectory(f, <<category>>)
    THEN [threw |-> TRUE, error |-> "ENOENT"]
    ELSE LET sorted == sortedPosts(f, category, subcategory)
             currentIndex ==
                 FirstIndex([i \in DOMAIN sorted |-> sorted[i].slug], currentSlug) - 1
         IN  [threw |-> FALSE] @@ neighbours(sorted, currentIndex)

----------------------------------------------------------------------------
(* Inputs *)

guides == <<"g", "u", "i", "d", "e", "s">>
notes == <<"n", "o", "t", "e", "s">>
java == <<"j", "a", "v", "a">>
react == <<"r", "e", "a", "c", "t">>

s_1_intro == <<"1", "-", "i", "n", "t", "r", "o">>
s_2_basics == <<"2", "-", "b", "a", "s", "i", "c", "s">>
s_10_advanced == <<"1", "0", "-", "a", "d", "v", "a", "n", "c", "e", "d">>
s_A_bar == <<"A", "-", "b", "a", "r">>
s_demo == <<"d", "e", "m", "o">>

Categories == {guides, notes}

\* The text of a document: a header block and a body.  A header may declare
\* slug and category fields of its own.
Doc(t) == [header |-> [title |-> t], body |-> t]
DocWithFields(t, sl, cat) ==
    [header |-> [title |-> t, slug |-> sl, category |-> cat], body |-> t]
Docs == {Doc("T1"), Doc("T2"), DocWithFields("T3", s_demo, notes)}
NoContent == [header |-> [nothing |-> TRUE], body |-> ""]

----------------------------------------------------------------------------
(* Authoring: a file is placed under a category directory by hand *)

NumFiles(f) == Cardinality(DOMAIN f.files)

\* The places a new entry can take when d, or the nearest directory above it
\* that exists, receives it
RECURSIVE Places(_, _)
Places(f, d) ==
    IF isDirectory(f, d) THEN 0 .. Len(f.tree[d])
    ELSE IF d = <<>> THEN {0}
    ELSE Places(f, parent(d))

AuthorFile(dir, slug, text, pos) ==
    LET p == dir \o <<slug \o <<MDX>>>>
        g == mkdirSync(fs, dir, pos)
        w == writeFileSync(g, p, text, pos)
    IN  /\ NumFiles(fs) < MaxFiles
        /\ pos \in Places(fs, dir)
        /\ ~existsSync(fs, p)
        /\ w.ok
        /\ fs' = w.fs
        /\ last' = [op |-> "author"]
        /\ UNCHANGED <<reqs, http>>

----------------------------------------------------------------------------
(* POST /api/create-document *)

categoryDirOf(category) == <<category>>

\* The slug taken as proposed, without a probe
generateUniqueSlugNoProbe(f, categoryDir, baseSlug, attempt) == baseSlug

\* A probe sequence that starts its suffixes at 2: slug, slug-2, slug-3, ...
RECURSIVE generateUniqueSlugFrom2(_, _, _, _)
generateUniqueSlugFrom2(f, categoryDir, baseSlug, attempt) ==
    LET newSlug == IF attempt = 0 THEN baseSlug
                   ELSE baseSlug \o <<"-">> \o NumToString(attempt + 1)
        filePath == categoryDir \o <<newSlug \o <<MDX>>>>
    IN  IF ~existsSync(f, filePath) THEN newSlug
        ELSE generateUniqueSlugFrom2(f, categoryDir, baseSlug, attempt + 1)

\* generateUniqueSlug(baseSlug, attempt), the probes reading the file system f
RECURSIVE generateUniqueSlug(_, _, _, _)
generateUniqueSlug(f, categoryDir, baseSlug, attempt) ==
    LET newSlug == IF attempt = 0 THEN baseSlug
                   ELSE baseSlug \o <<"-">> \o NumToString(attempt)
        filePath == categoryDir \o <<newSlug \o <<MDX>>>>
    IN  IF ~existsSync(f, filePath) THEN newSlug
        ELSE generateUniqueSlug(f, categoryDir, baseSlug, attempt + 1)

\* A validation that lets a submission without content through
MissingFieldsButContent(body) ==
    body.category = Undefined \/ body.slug = Undefined

\* Lines 41-43: !category || !slug || !content
MissingFields(body) ==
    body.category = Undefined \/ body.slug = Undefined \/ body.content = NoContent

\* The category directory is created if it does not exist.
EnsureCategoryDir(f, categoryDir, pos) ==
    IF ~existsSync(f, categoryDir) THEN mkdirSync(f, categoryDir, pos) ELSE f

\* What the operating system makes of the write of line 68: "ok"; "EACCES",
\* the open fails and nothing is created; "ENOSPC", the file is opened with
\* flag 'w', which creates or empties it, and the write of the text then fails
WriteOutcomes == {"ok", "EACCES", "ENOSPC"}

\* What is left in a file whose write has failed
Truncated(text) == [header |-> [truncated |-> TRUE], body |-> ""]

writeFileSyncIO(f, p, text, pos, io) ==
    LET w == writeFileSync(f, p, text, pos)
    IN  IF io = "ok" \/ ~w.ok THEN w
        ELSE IF io = "EACCES" THEN [ok |-> FALSE, fs |-> f]
        ELSE [ok |-> FALSE, fs |-> writeFileSync(f, p, Truncated(text), pos).fs]

\* The whole handler, as one server process runs it: it has no await, so
\* nothing else of that process runs between its probes and its write.
handler(method, body, pos, io) ==
    IF method # "POST"
    THEN /\ pos = 0 /\ io = "ok"
         /\ last' = [op |-> "create", status |-> 405]
         /\ UNCHANGED <<fs, reqs>>
    ELSE IF MissingFields(body)
    THEN /\ pos = 0 /\ io = "ok"
         /\ last' = [op |-> "create", status |-> 400, body |-> body]
         /\ UNCHANGED <<fs, reqs>>
    ELSE LET categoryDir == categoryDirOf(body.category)
             g == EnsureCategoryDir(fs, categoryDir, pos)
             uniqueSlug == generateUniqueSlug(g, categoryDir, body.slug, 0)
             filePath == categoryDir \o <<uniqueSlug \o <<MDX>>>>
             w == writeFileSyncIO(g, filePath, body.content, pos, io)
         IN  /\ NumFiles(fs) < MaxFiles
             /\ pos \in Places(fs, categoryDir)
             /\ fs' = w.fs
             /\ last' = IF w.ok
                        THEN [op |-> "create", status |-> 200, slug |-> uniqueSlug,
                              category |-> body.category, proposed |-> body.slug,
                              content |-> body.content]
                        ELSE [op |-> "create", status |-> 500,
                              category |-> body.category, slug |-> uniqueSlug]
             /\ UNCHANGED reqs

----------------------------------------------------------------------------
(* Submissions handled one after another *)

EmptyRoot == [tree |-> (<<>> :> <<>>), files |-> <<>>]
NoExchange == [path |-> <<>>]

Init ==
    /\ fs = EmptyRoot
    /\ reqs = <<>>
    /\ last = [op |-> "none"]
    /\ http = NoExchange

SubmitDirs == {<<guides>>, <<guides, java>>}
SubmitCategories == {guides, notes}
SubmitSlugs == {s_demo, s_demo \o <<"-", "1">>}
SubmitDocs == {Doc("T1"), Doc("T2")}
Bodies ==
    [category : SubmitCategories, slug : SubmitSlugs, content : SubmitDocs]
    \cup {[category |-> Undefined, slug |-> s_demo, content |-> Doc("T1")],
          [category |-> guides, slug |-> Undefined, content |-> Doc("T1")],
          [category |-> guides, slug |-> s_demo, content |-> NoContent]}

Positions == 0 .. MaxFiles

Author ==
    \E dir \in SubmitDirs, slug \in SubmitSlugs, pos \in Positions :
        AuthorFile(dir, slug, Doc("T0"), pos)

\* Every write succeeds
Submit ==
    \E method \in {"POST", "GET"}, body \in Bodies, pos \in Positions :
        handler(method, body, pos, "ok") /\ UNCHANGED http

Next == Author \/ Submit

Spec == Init /\ [][Next]_vars

----------------------------------------------------------------------------
(* Submissions whose write the operating system may fail *)

FailBodies ==
    [category : SubmitCategories, slug : {s_demo}, content : {Doc("T1")}]
    \cup {[category |-> guides, slug |-> s_demo, content |-> NoContent]}

AuthorFail == \E pos \in Positions : AuthorFile(<<guides>>, s_demo, Doc("T0"), pos)

SubmitIO ==
    \E body \in FailBodies, pos \in Positions, io \in WriteOutcomes :
        handler("POST", body, pos, io) /\ UNCHANGED http

NextFail == AuthorFail \/ SubmitIO

SpecFail == Init /\ [][NextFail]_vars

----------------------------------------------------------------------------
(* Submissions handled by several server processes that share the content  *)
(* directory: every fs call of the handler is one step of its process      *)

Procs == 1 .. MaxProcs
NoBody == [category |-> Undefined, slug |-> Undefined, content |-> NoContent]
Idle == [pc |-> "idle", body |-> NoBody, attempt |-> 0, uniqueSlug |-> Undefined,
         status |-> 0]

InitRace ==
    /\ fs = EmptyRoot
    /\ reqs = [r \in Procs |-> Idle]
    /\ last = [op |-> "none"]
    /\ http = NoExchange

\* lines 33-49: method check, validation, category directory
handlerStart(r, method, body, pos) ==
    /\ reqs[r].pc = "idle"
    /\ IF method # "POST"
       THEN /\ pos = 0
            /\ reqs' = [reqs EXCEPT ![r] = [@ EXCEPT !.pc = "done", !.status = 405]]
            /\ UNCHANGED fs
       ELSE IF MissingFields(body)
       THEN /\ pos = 0
            /\ reqs' = [reqs EXCEPT ![r] = [@ EXCEPT !.pc = "done", !.status = 400]]
            /\ UNCHANGED fs
       ELSE /\ pos \in (IF existsSync(fs, categoryDirOf(body.category)) THEN {0}
                         ELSE Places(fs, categoryDirOf(body.category)))
            /\ reqs' = [reqs EXCEPT ![r] = [@ EXCEPT !.pc = "probe", !.body = body]]
            /\ fs' = EnsureCategoryDir(fs, categoryDirOf(body.category), pos)
    /\ UNCHANGED <<last, http>>

\* lines 53-60: one fs.existsSync probe of generateUniqueSlug
handlerProbe(r) ==
    LET q == reqs[r]
        newSlug == IF q.attempt = 0 THEN q.body.slug
                   ELSE q.body.slug \o <<"-">> \o NumToString(q.attempt)
        filePath == categoryDirOf(q.body.category) \o <<newSlug \o <<MDX>>>>
    IN  /\ q.pc = "probe"
        /\ reqs' = [reqs EXCEPT ![r] =
                        IF ~existsSync(fs, filePath)
                        THEN [q EXCEPT !.pc = "write", !.uniqueSlug = newSlug]
                        ELSE [q EXCEPT !.attempt = @ + 1]]
        /\ UNCHANGED <<fs, last, http>>

filePathOf(q) == categoryDirOf(q.body.category) \o <<q.uniqueSlug \o <<MDX>>>>

\* lines 65-77: the write and the response
handlerWrite(r, pos) ==
    LET q == reqs[r]
        w == writeFileSync(fs, filePathOf(q), q.body.content, pos)
    IN  /\ q.pc = "write"
        /\ NumFiles(fs) < MaxFiles \/ isFile(fs, filePathOf(q))
        /\ pos \in (IF existsSync(fs, filePathOf(q)) THEN {0}
                     ELSE Places(fs, parent(filePathOf(q))))
        /\ fs' = w.fs
        /\ reqs' = [reqs EXCEPT ![r] =
                        [q EXCEPT !.pc = "done",
                                  !.status = IF w.ok THEN 200 ELSE 500]]
        /\ UNCHANGED <<last, http>>

RaceBodies ==
    [category : {guides}, slug : SubmitSlugs, content : SubmitDocs]
    \cup {[category |-> guides, slug |-> s_demo, content |-> NoContent]}

AuthorRace ==
    \E slug \in SubmitSlugs, pos \in Positions :
        AuthorFile(<<guides>>, slug, Doc("T0"), pos)

Start ==
    \E r \in Procs, method \in {"POST", "GET"}, body \in RaceBodies, pos \in Positions :
        handlerStart(r, method, body, pos)

Probe == \E r \in Procs : handlerProbe(r)

Write == \E r \in Procs, pos \in Positions : handlerWrite(r, pos)

NextRace == AuthorRace \/ Start \/ Probe \/ Write

SpecRace == InitRace /\ [][NextRace]_vars

----------------------------------------------------------------------------
(* Pages reading the content tree *)

Resolve(category, slug, subcategory) ==
    /\ last' = [op |-> "resolve", category |-> category, slug |-> slug,
                subcategory |-> subcategory,
                result |-> getPostBySlug(fs, category, slug, subcategory)]
    /\ UNCHANGED <<fs, reqs, http>>

Adjacent(category, slug, subcategory) ==
    /\ last' = [op |-> "adjacent", category |-> category, slug |-> slug,
                subcategory |-> subcategory,
                result |-> getAdjacentPosts(fs, category, slug, subcategory)]
    /\ UNCHANGED <<fs, reqs, http>>

\* Prev/next navigation over a category with one subcategory
s_1a_x == <<"1", "a", "-", "x">>
NavDirs == {<<guides>>, <<guides, java>>}
NavSlugs == {s_1_intro, s_2_basics, s_10_advanced, s_A_bar, s_1a_x}
NavHints == {Undefined, java}

AuthorNav ==
    \E dir \in NavDirs, slug \in NavSlugs, pos \in Positions :
        AuthorFile(dir, slug, Doc("T0"), pos)

Navigate ==
    \E slug \in NavSlugs, subcategory \in NavHints :
        Adjacent(guides, slug, subcategory)

NextNav == AuthorNav \/ Navigate

SpecNav == Init /\ [][NextNav]_vars

\* Resolution of a slug that may exist at several places of a category
ResolveDirs == {<<guides>>, <<guides, java>>, <<guides, java, react>>}
ResolveSlugs == {s_demo, s_1_intro}
ResolveHints == {Undefined, java, react}

AuthorResolve ==
    \E dir \in ResolveDirs, slug \in ResolveSlugs, text \in Docs, pos \in Positions :
        AuthorFile(dir, slug, text, pos)

Lookup ==
    \E category \in Categories, slug \in ResolveSlugs, subcategory \in ResolveHints :
        Resolve(category, slug, subcategory)

NextResolve == AuthorResolve \/ Lookup

SpecResolve == Init /\ [][NextResolve]_vars

----------------------------------------------------------------------------
(* Listings of a content tree that also holds files of other extensions and *)
(* files whose header cannot be decoded                                     *)

MD == ".md"

\* A file of any name placed under a directory of the content tree by hand
AuthorEntry(dir, name, text, pos) ==
    LET p == dir \o <<name>>
        g == mkdirSync(fs, dir, pos)
        w == writeFileSync(g, p, text, pos)
    IN  /\ NumFiles(fs) < MaxFiles
        /\ pos \in Places(fs, dir)
        /\ ~existsSync(fs, p)
        /\ w.ok
        /\ fs' = w.fs
        /\ last' = [op |-> "author"]
        /\ UNCHANGED <<reqs, http>>

ListAllPosts ==
    /\ last' = [op |-> "getAllPosts", result |-> getAllPosts(fs)]
    /\ UNCHANGED <<fs, reqs, http>>

ListCategory(category) ==
    /\ last' = [op |-> "getPostsByCategory", category |-> category,
                result |-> getPostsByCategoryCall(fs, category)]
    /\ UNCHANGED <<fs, reqs, http>>

ListDirs == {<<guides>>, <<guides, java>>, <<guides, java, react>>, <<notes>>}
ListNames == {s_demo \o <<MDX>>, s_demo \o <<MD>>}
ListDocs == {DocWithFields("T3", s_demo, notes), Malformed}

AuthorList ==
    \E dir \in ListDirs, name \in ListNames, text \in ListDocs, pos \in Positions :
        AuthorEntry(dir, name, text, pos)

ListByCategory == \E category \in Categories : ListCategory(category)

NextList == AuthorList \/ ListAllPosts \/ ListByCategory

SpecList == Init /\ [][NextList]_vars

----------------------------------------------------------------------------
(* The new-document page: a document is submitted and then opened *)

Today == "2025-04-28"
t_Demo == <<"D", "e", "m", "o">>
t_Demo_1 == <<"D", "e", "m", "o", " ", "1">>
t_Bang == <<"!", "!">>

\* handleSubmit of the page, for a form that is filled in, up to the response
\* of the handler
handleSubmit(title, description, category, content, pos) ==
    LET slug == slugify(title)
        frontMatter == [title |-> title, description |-> description,
                        date |-> Today]
        mdxContent == stringify(content, frontMatter)
    IN  /\ handler("POST", [category |-> category, slug |-> slug,
                            content |-> mdxContent], pos, "ok")
        /\ UNCHANGED http

\* router.push(`/${category}/${data.slug}`) after a 200: the document page
\* resolves the slug returned, without a subcategory
OpenCreated ==
    /\ last.op = "create"
    /\ last.status = 200
    /\ Resolve(last.category, last.slug, Undefined)

PageTitles == {t_Demo, t_Demo_1, t_Bang}
PageContents == {"B1", "B2"}

AuthorPage ==
    \E dir \in SubmitDirs, slug \in SubmitSlugs, pos \in Positions :
        AuthorFile(dir, slug, Doc("T0"), pos)

SubmitPage ==
    \E title \in PageTitles, content \in PageContents, pos \in Positions :
        handleSubmit(title, "D1", guides, content, pos)

NextPage == AuthorPage \/ SubmitPage \/ OpenCreated

SpecPage == Init /\ [][NextPage]_vars

----------------------------------------------------------------------------
(* src/middleware.ts and the routes behind it.  A URL path is a sequence of *)
(* fragments whose concatenation is the path; the fragments are cut where   *)
(* the prefixes tested by the program end.                                  *)

p_root == <<"/">>
p_login == <<"/login">>
p_signup == <<"/signup">>
p_new_document == <<"/new-document">>
p_new_document_sub == <<"/new-document", "/drafts">>
p_create_document == <<"/api", "/create-document">>
p_guides == <<"/guides">>

\* A list of auth pages that also names a content page
PUBLIC_PATHS_AndGuides == {p_root, p_login, p_signup, p_guides}

PUBLIC_PATHS == {p_root, p_login, p_signup}
PROTECTED_PATHS == {"/new-document"}

\* path.startsWith(prefix), for a prefix that is one fragment
startsWith(path, prefix) == path # <<>> /\ path[1] = prefix

\* A test that takes the protected paths as whole paths
isProtectedPageExact(path) == \E protectedPath \in PROTECTED_PATHS : path = <<protectedPath>>

\* Lines 20 and 40: PROTECTED_PATHS.some(protectedPath => path.startsWith(protectedPath))
isProtectedPage(path) ==
    \E protectedPath \in PROTECTED_PATHS : startsWith(path, protectedPath)

\* config.matcher: the middleware runs for the paths that do not start with
\* /api, /_next/static, /_next/image or /favicon.ico
matcher(path) ==
    ~\E prefix \in {"/api", "/_next/static", "/_next/image", "/favicon.ico"} :
         startsWith(path, prefix)

NextResponse == [kind |-> "next"]
Redirect(to, redirectTo) == [kind |-> "redirect", to |-> to, redirectTo |-> redirectTo]

\* A middleware that sends every request to /login when the lookup throws
middlewareCatchAll(path, hasSession, lookupThrows) ==
    IF lookupThrows
    THEN Redirect(p_login, Undefined)
    ELSE LET isAuthPage == path \in PUBLIC_PATHS
         IN  IF ~hasSession /\ isProtectedPage(path) THEN Redirect(p_login, path)
             ELSE IF hasSession /\ isAuthPage THEN Redirect(p_root, Undefined)
             ELSE NextResponse

\* A middleware whose redirect to /login forgets the path asked for
middlewareNoRedirectTo(path, hasSession, lookupThrows) ==
    IF lookupThrows
    THEN IF isProtectedPage(path) THEN Redirect(p_login, Undefined) ELSE NextResponse
    ELSE LET isAuthPage == path \in PUBLIC_PATHS
         IN  IF ~hasSession /\ isProtectedPage(path) THEN Redirect(p_login, Undefined)
             ELSE IF hasSession /\ isAuthPage THEN Redirect(p_root, Undefined)
             ELSE NextResponse

\* middleware(req): hasSession tells whether the request carries a session,
\* lookupThrows whether supabase.auth.getSession() throws
middleware(path, hasSession, lookupThrows) ==
    IF lookupThrows
    THEN IF isProtectedPage(path) THEN Redirect(p_login, Undefined) ELSE NextResponse
    ELSE LET isAuthPage == path \in PUBLIC_PATHS
         IN  IF ~hasSession /\ isProtectedPage(path) THEN Redirect(p_login, path)
             ELSE IF hasSession /\ isAuthPage THEN Redirect(p_root, Undefined)
             ELSE NextResponse

\* The exchange of one request: whether the matcher selects the path and what
\* the middleware answers when it does
exchange(path, hasSession, lookupThrows) ==
    LET matched == matcher(path)
    IN  [path |-> path, hasSession |-> hasSession,
         lookupThrows |-> lookupThrows, matched |-> matched,
         response |-> IF matched THEN middleware(path, hasSession, lookupThrows)
                      ELSE NextResponse]

\* One request served: the middleware when the matcher selects the path, then,
\* unless it redirected, the route of the path
Serve(path, method, hasSession, lookupThrows, body, pos) ==
    /\ http' = exchange(path, hasSession, lookupThrows)
    /\ IF exchange(path, hasSession, lookupThrows).response.kind = "next"
          /\ path = p_create_document
       THEN handler(method, body, pos, "ok")
       ELSE /\ method = "GET" /\ body = NoBody /\ pos = 0
            /\ UNCHANGED <<fs, reqs, last>>

Paths == {p_root, p_login, p_signup, p_new_document, p_new_document_sub,
          p_create_document, p_guides}
AuthBodies ==
    [category : {guides}, slug : {s_demo}, content : {Doc("T1")}] \cup {NoBody}

Request ==
    \E path \in Paths, method \in {"GET", "POST"}, hasSession \in BOOLEAN,
       lookupThrows \in BOOLEAN, body \in AuthBodies, pos \in Positions :
        Serve(path, method, hasSession, lookupThrows, body, pos)

NextAuth == Request

SpecAuth == Init /\ [][NextAuth]_vars

----------------------------------------------------------------------------
(* A browser: a URL is entered, the redirects of the middleware are         *)
(* followed, the form of the login page is submitted.  last is where the    *)
(* browser is: the path asked for, the redirectTo of its query, the flags   *)
(* of the login page.                                                       *)

Location(op, path, redirectTo) ==
    [op |-> op, path |-> path, redirectTo |-> redirectTo,
     loading |-> FALSE, error |-> FALSE]

\* A URL is entered or a link is taken: the path and the redirectTo of its query
Visit(path, redirectTo, hasSession, lookupThrows) ==
    /\ http' = exchange(path, hasSession, lookupThrows)
    /\ last' = Location("visit", path, redirectTo)
    /\ UNCHANGED <<fs, reqs>>

\* The browser asks for the target of a redirect, with the cookies it has
FollowRedirect(lookupThrows) ==
    /\ http # NoExchange
    /\ http.response.kind = "redirect"
    /\ http' = exchange(http.response.to, http.hasSession, lookupThrows)
    /\ last' = Location("follow", http.response.to, http.response.redirectTo)
    /\ UNCHANGED <<fs, reqs>>

\* signIn(email, password) of the auth context: it resolves with a session
\* established for the browser, or throws
signIn(credentialsOk) ==
    IF credentialsOk THEN [threw |-> FALSE, hasSession |-> TRUE]
    ELSE [threw |-> TRUE, hasSession |-> FALSE]

\* handleSubmit of the login page, up to its await: the page is displayed and
\* the form is submitted
LoginHandleSubmit ==
    /\ http # NoExchange
    /\ http.path = p_login
    /\ http.response.kind = "next"
    /\ ~last.loading
    /\ last' = [last EXCEPT !.op = "submit", !.error = FALSE, !.loading = TRUE]
    /\ UNCHANGED <<fs, reqs, http>>

\* handleSubmit after its await: signIn has resolved, router.push(redirectTo ||
\* '/') asks for the target with the session; or signIn has thrown
LoginSignInSettled(credentialsOk, lookupThrows) ==
    LET r == signIn(credentialsOk)
        redirectTo == last.redirectTo
        target == IF redirectTo # Undefined THEN redirectTo ELSE p_root
    IN  /\ last.op = "submit"
        /\ last.loading
        /\ IF ~r.threw
           THEN /\ http' = exchange(target, r.hasSession, lookupThrows)
                /\ last' = Location("signIn", target, redirectTo)
           ELSE /\ ~lookupThrows
                /\ last' = [last EXCEPT !.op = "signInFailed",
                                        !.error = TRUE, !.loading = FALSE]
                /\ UNCHANGED http
        /\ UNCHANGED <<fs, reqs>>

p_new_documents == <<"/new-document", "s">>
p_guides_java == <<"/guides", "/java">>
p_favicon == <<"/favicon.ico">>
p_signup_done == <<"/signup", "/done">>

PagePaths == {p_root, p_login, p_signup, p_new_document, p_new_document_sub,
              p_new_documents, p_guides, p_guides_java, p_favicon,
              p_signup_done}

\* The login page is also linked with a query: /login?redirectTo=/new-document
LoginQueries == {Undefined, p_new_document, p_new_document_sub, p_guides}

EnterUrl ==
    \E path \in PagePaths, redirectTo \in LoginQueries, hasSession \in BOOLEAN,
       lookupThrows \in BOOLEAN :
        /\ redirectTo # Undefined => path = p_login
        /\ Visit(path, redirectTo, hasSession, lookupThrows)

Follow == \E lookupThrows \in BOOLEAN : FollowRedirect(lookupThrows)

SignInSettled ==
    \E credentialsOk \in BOOLEAN, lookupThrows \in BOOLEAN :
        LoginSignInSettled(credentialsOk, lookupThrows)

NextBrowse == EnterUrl \/ Follow \/ LoginHandleSubmit \/ SignInSettled

SpecBrowse == Init /\ [][NextBrowse]_vars

\* The browser follows a redirect it has received
SpecBrowseFair == SpecBrowse /\ WF_vars(Follow)

----------------------------------------------------------------------------
(* scripts/new-doc.ts *)

concepts == <<"c", "o", "n", "c", "e", "p", "t", "s">>
references == <<"r", "e", "f", "e", "r", "e", "n", "c", "e", "s">>
validCategoriesAndNotes == {guides, concepts, references, notes}
validCategories == {guides, concepts, references}

\* Lines 38-52: the text the script writes; the date is written as a plain
\* scalar
newDocContent(title, description, author) ==
    [header |-> [title |-> title, description |-> description,
                 date |-> [style |-> "plain", text |-> Today],
                 author |-> author],
     body |-> [heading |-> title, text |-> description]]

\* main(): the answers to the four questions are title, description, category
\* and author; codeFails tells whether the editor command of line 63 fails;
\* the finally block closes the prompt on every path
main(title, description, category, author, pos, codeFails) ==
    IF category \notin validCategories
    THEN /\ pos = 0 /\ ~codeFails
         /\ last' = [op |-> "new-doc", created |-> FALSE, error |-> TRUE,
                     category |-> category, title |-> title, closed |-> TRUE]
         /\ UNCHANGED <<fs, reqs, http>>
    ELSE LET slug == slugify(title)
             filePath == <<category, slug \o <<MDX>>>>
             dir == parent(filePath)
             g == IF ~existsSync(fs, dir) THEN mkdirSync(fs, dir, pos) ELSE fs
             w == writeFileSync(g, filePath, newDocContent(title, description, author),
                                pos)
         IN  /\ NumFiles(fs) < MaxFiles \/ isFile(fs, filePath)
             /\ pos \in (IF isFile(fs, filePath) THEN {0} ELSE Places(fs, dir))
             /\ fs' = w.fs
             /\ last' = [op |-> "new-doc", created |-> w.ok,
                         error |-> (~w.ok \/ codeFails),
                         category |-> category, slug |-> slug,
                         title |-> title, closed |-> TRUE]
             /\ UNCHANGED <<reqs, http>>

ScriptCategories == {guides, concepts, notes}
ScriptDescriptions == {"D1", "D2"}

AuthorScript ==
    \E category \in {guides, concepts}, pos \in Positions :
        AuthorFile(<<category>>, s_demo, Doc("T0"), pos)

RunNewDoc ==
    \E title \in {t_Demo, t_Demo_1}, description \in ScriptDescriptions,
       category \in ScriptCategories, pos \in Positions, codeFails \in BOOLEAN :
        main(title, description, category, "A1", pos, codeFails)

NextScript == AuthorScript \/ RunNewDoc

SpecScript == Init /\ [][NextScript]_vars

----------------------------------------------------------------------------
(* The guides post page: getStaticPaths and getStaticProps at build time *)

\* getStaticPaths(): a path for every post of the whole content tree that has
\* a subcategory
getStaticPaths(f) ==
    LET r == getAllPosts(f)
    IN  IF r.threw THEN r
        ELSE LET withSub == SelectSeq(r.posts,
                                      LAMBDA post : post.subcategory # Undefined)
             IN  [threw |-> FALSE,
                  paths |-> [i \in DOMAIN withSub |->
                                [subcategory |-> withSub[i].subcategory,
                                 slug |-> withSub[i].slug]]]

\* getStaticProps({ params }), as far as the post is concerned
getStaticProps(f, params) == getPostBySlug(f, guides, params.slug, params.subcategory)

\* The build: the paths are generated and the props of each path computed
BuildGuidesPages ==
    LET r == getStaticPaths(fs)
    IN  /\ last' = IF r.threw THEN [op |-> "build", paths |-> <<>>, props |-> <<>>,
                                    threw |-> TRUE]
                   ELSE [op |-> "build", paths |-> r.paths,
                         props |-> [i \in DOMAIN r.paths |->
                                       getStaticProps(fs, r.paths[i])],
                         threw |-> FALSE]
        /\ UNCHANGED <<fs, reqs, http>>

PathsDirs == {<<guides>>, <<guides, java>>, <<guides, java, react>>,
              <<notes>>, <<notes, java>>}
PathsSlugs == {s_demo, s_1_intro}

AuthorPaths ==
    \E dir \in PathsDirs, slug \in PathsSlugs, pos \in Positions :
        AuthorFile(dir, slug, Doc("T0"), pos)

NextPaths == AuthorPaths \/ BuildGuidesPages

SpecPaths == Init /\ [][NextPaths]_vars

----------------------------------------------------------------------------
(* Claims on document submission *)

Created200(l) == l.op = "create" /\ l.status = 200
WrittenPath(l) == <<l.category, l.slug \o <<MDX>>>>

\* C1: every successful submission (status 200), the submissions being handled
\* one after another, creates exactly one new file, in the category directory,
\* and leaves the text of every file that existed before it unchanged.
C1_OneNewFileNoOverwrite ==
    [][Created200(last') =>
         /\ \A p \in DOMAIN fs.files :
                p \in DOMAIN fs'.files /\ fs'.files[p] = fs.files[p]
         /\ \E p \in DOMAIN fs'.files \ DOMAIN fs.files :
                /\ DOMAIN fs'.files = DOMAIN fs.files \cup {p}
                /\ parent(p) = <<last'.category>>]_vars

\* A submission has succeeded in a category that already held a document of
\* the proposed slug, with another text.
C1_Witness ==
    /\ Created200(last)
    /\ last.slug # last.proposed
    /\ isFile(fs, <<last.category, last.proposed \o <<MDX>>>>)
    /\ fs.files[<<last.category, last.proposed \o <<MDX>>>>] # last.content

Suffixed(slug, n) == IF n = 0 THEN slug ELSE slug \o <<"-">> \o NumToString(n)
Taken(f, category, slug, n) == existsSync(f, <<category, Suffixed(slug, n) \o <<MDX>>>>)
s_demo_1 == s_demo \o <<"-", "1">>

\* C3: the slug a successful submission returns is the proposed slug when no
\* '<slug>.mdx' exists in the category directory, otherwise '<slug>-n' for the
\* smallest n >= 1 whose file does not exist, and the file written has that
\* name; "demo" submitted twice in a row to a category holding neither
\* demo.mdx nor demo-1.mdx is stored as "demo" and then "demo-1".
C3_SmallestFreeSuffix ==
    [][Created200(last') =>
         /\ \E n \in 0 .. MaxFiles :
                /\ last'.slug = Suffixed(last'.proposed, n)
                /\ ~Taken(fs, last'.category, last'.proposed, n)
                /\ \A k \in 0 .. (n - 1) : Taken(fs, last'.category, last'.proposed, k)
         /\ ~isFile(fs, WrittenPath(last'))
         /\ isFile(fs', WrittenPath(last'))
         /\ fs'.files[WrittenPath(last')] = last'.content
         /\ ( /\ Created200(last) /\ last.proposed = s_demo /\ last.slug = s_demo
              /\ last'.proposed = s_demo /\ last'.category = last.category
              /\ ~Taken(fs, last.category, s_demo, 1)
              => last'.slug = s_demo_1 )]_vars

\* "demo" was submitted where demo.mdx existed and was stored as demo-1.mdx.
C3_Witness ==
    /\ Created200(last)
    /\ last.proposed = s_demo
    /\ last.slug = s_demo_1
    /\ isFile(fs, <<last.category, s_demo \o <<MDX>>>>)
    /\ isFile(fs, <<last.category, s_demo_1 \o <<MDX>>>>)

\* C2: a submission whose probe found its path free, and whose path another
\* submission of the same category and slug has written since, still writes
\* that path and answers 200 with that slug: the file count does not grow, the
\* earlier text is replaced, and both callers hold the same final slug.
C2_ProbeThenWriteOverwrites ==
    [][\A r \in Procs :
          (reqs[r].pc = "write" /\ reqs'[r].pc = "done" /\ isFile(fs, filePathOf(reqs[r])))
          => /\ reqs'[r].status = 200
             /\ reqs'[r].uniqueSlug = reqs[r].uniqueSlug
             /\ fs'.files[filePathOf(reqs[r])] = reqs[r].body.content
             /\ DOMAIN fs'.files = DOMAIN fs.files]_vars

\* Two submissions of the same category and proposed slug, with different
\* texts, were both answered 200 with the same slug; one text is stored, the
\* other is in no file.
C2_Witness ==
    \E r1, r2 \in Procs :
        /\ r1 # r2
        /\ reqs[r1].pc = "done" /\ reqs[r1].status = 200
        /\ reqs[r2].pc = "done" /\ reqs[r2].status = 200
        /\ reqs[r1].body.category = reqs[r2].body.category
        /\ reqs[r1].body.slug = reqs[r2].body.slug
        /\ reqs[r1].uniqueSlug = reqs[r2].uniqueSlug
        /\ reqs[r1].body.content # reqs[r2].body.content
        /\ fs.files[filePathOf(reqs[r1])] = reqs[r2].body.content
        /\ \A p \in DOMAIN fs.files : fs.files[p] # reqs[r1].body.content

----------------------------------------------------------------------------
(* Claims on adjacency *)

SlugsOf(w) == {w[i].slug : i \in DOMAIN w}
IsAdjacent(l) == l.op = "adjacent" /\ ~l.result.threw
Siblings(l) == sortedPosts(fs, l.category, l.subcategory)

\* C4: adjacency is symmetric within a sibling set: if the next of the
\* sibling S is the document with slug T, the prev of T is the document with
\* slug S, with or without a subcategory filter.
C4_AdjacencySymmetric ==
    isDirectory(fs, <<guides>>) =>
        \A subcategory \in NavHints :
            \A S \in SlugsOf(sortedPosts(fs, guides, subcategory)) :
                LET a == getAdjacentPosts(fs, guides, S, subcategory)
                IN  a.next # Null =>
                        LET b == getAdjacentPosts(fs, guides, a.next.slug, subcategory)
                        IN  b.prev # Null /\ b.prev.slug = S

\* C5: for a slug that is not in the sibling set, prev and next are both null.
C5_NotFoundBothNull ==
    (IsAdjacent(last) /\ last.slug \notin SlugsOf(Siblings(last)))
        => (last.result.prev = Null /\ last.result.next = Null)

\* C6: for a slug found at position i of the sorted sibling sequence (the first
\* position that holds it), prev is the element at i-1, null when i is the
\* first position, and next the element at i+1, null when i is the last.
C6_PrevNextByPosition ==
    IsAdjacent(last) =>
        LET sorted == Siblings(last)
        IN  \A i \in DOMAIN sorted :
                (sorted[i].slug = last.slug
                    /\ \A j \in 1 .. (i - 1) : sorted[j].slug # last.slug)
                => /\ last.result.prev = IF i = 1 THEN Null ELSE sorted[i - 1]
                   /\ last.result.next = IF i = Len(sorted) THEN Null
                                         ELSE sorted[i + 1]

\* The slug asked for stands between two siblings.
C6_Witness ==
    /\ IsAdjacent(last)
    /\ last.slug \in SlugsOf(Siblings(last))
    /\ last.result.prev # Null
    /\ last.result.next # Null
    /\ last.result.prev.slug # last.result.next.slug

NumericPrefix(post) == AllDigits(prefixOf(post.slug))
LetterPrefix(post) ==
    LET x == prefixOf(post.slug)
    IN  x # <<>> /\ \A i \in DOMAIN x : IsLower(x[i]) \/ IsUpper(x[i])

\* C7: two documents whose slug prefixes are both purely numeric stand in the
\* sorted sibling sequence in the order of the integer values of the prefixes
\* (1-intro, 2-basics, 10-advanced in that order), whatever the enumeration
\* order of the files.
C7_NumericPrefixOrder ==
    isDirectory(fs, <<guides>>) =>
        \A subcategory \in NavHints :
            LET sorted == sortedPosts(fs, guides, subcategory)
            IN  \A i, j \in DOMAIN sorted :
                    (i < j /\ NumericPrefix(sorted[i]) /\ NumericPrefix(sorted[j]))
                    => parseInt(prefixOf(sorted[i].slug))
                           <= parseInt(prefixOf(sorted[j].slug))

\* C8: in a sibling sequence every document with a purely numeric prefix
\* stands before every document whose prefix is made of letters, and prev/next
\* never step from a letter prefix forward to a numeric one.
C8_NumericBeforeLetters ==
    /\ isDirectory(fs, <<guides>>) =>
          \A subcategory \in NavHints :
              LET sorted == sortedPosts(fs, guides, subcategory)
              IN  \A i, j \in DOMAIN sorted :
                      i < j => ~(LetterPrefix(sorted[i]) /\ NumericPrefix(sorted[j]))
    /\ (IsAdjacent(last) /\ last.slug \in SlugsOf(Siblings(last))) =>
          /\ (NumericPrefix(last) /\ last.result.prev # Null)
                 => ~LetterPrefix(last.result.prev)
          /\ (LetterPrefix(last) /\ last.result.next # Null)
                 => ~NumericPrefix(last.result.next)

\* The next of a document with a numeric prefix is A-bar, enumerated before it.
C8_Witness ==
    /\ IsAdjacent(last)
    /\ NumericPrefix(last)
    /\ last.result.next # Null
    /\ last.result.next.slug = s_A_bar
    /\ LET fl == getPostsByCategory(fs, guides)
       IN  \E i, j \in DOMAIN fl :
               i < j /\ fl[i].slug = s_A_bar /\ fl[j].slug = last.slug
                     /\ fl[i].subcategory = fl[j].subcategory

----------------------------------------------------------------------------
(* Claims on resolution *)

IsResolve(l) == l.op = "resolve"
HintPath(l) == <<l.category, l.subcategory, l.slug \o <<MDX>>>>

\* What resolving the file at path p under category c as slug s must return
ResolvedFrom(p, c, s) ==
    [threw |-> FALSE,
     source |-> fs.files[p].body,
     frontMatter |->
         Spread(matter(fs.files[p]).data,
                [slug |-> s, category |-> c,
                 subcategory |-> joinPath(SubSeq(p, 2, Len(p) - 1))])]

Candidates(c, s) ==
    {p \in DOMAIN fs.files : p[1] = c /\ p[Len(p)] = s \o <<MDX>>}

\* C9: with a hint whose subdirectory holds <slug>.mdx the resolver returns that
\* file, whatever else of that slug the category holds; without a hint, or with
\* the file absent from the hinted subdirectory, it returns a document of the
\* category whose file name without extension is the slug; the subcategory
\* reported is the directory of the file found, absent for a file directly
\* under the category.
C9_HintFirstThenScan ==
    IsResolve(last) =>
        IF last.subcategory # Undefined /\ isFile(fs, HintPath(last))
        THEN last.result = ResolvedFrom(HintPath(last), last.category, last.slug)
        ELSE Candidates(last.category, last.slug) # {} =>
                \E p \in Candidates(last.category, last.slug) :
                    last.result = ResolvedFrom(p, last.category, last.slug)

\* The hinted file was returned although the category lists another document
\* of the same slug, with another text, before it.
C9_Witness ==
    /\ IsResolve(last)
    /\ last.subcategory # Undefined
    /\ isFile(fs, HintPath(last))
    /\ ~last.result.threw
    /\ last.result.frontMatter.subcategory = last.subcategory
    /\ LET fl == getFilesRecursively(fs, <<last.category>>)
           other == fl[1].filePath
       IN  /\ other # HintPath(last)
           /\ basenameNoExt(other) = last.slug
           /\ fs.files[other] # fs.files[HintPath(last)]

\* C10: the metadata the resolver returns for slug S of category C has slug S
\* and category C, also when the header of the file declares other values.
C10_SlugAndCategoryOfRequest ==
    (IsResolve(last) /\ ~last.result.threw) =>
        /\ last.result.frontMatter.slug = last.slug
        /\ last.result.frontMatter.category = last.category

\* The resolved file's header declares a slug and a category of its own.
C10_Witness ==
    /\ IsResolve(last)
    /\ ~last.result.threw
    /\ \E p \in Candidates(last.category, last.slug) :
           /\ last.result = ResolvedFrom(p, last.category, last.slug)
           /\ "slug" \in DOMAIN fs.files[p].header
           /\ fs.files[p].header.slug # last.slug
           /\ fs.files[p].header.category # last.category

----------------------------------------------------------------------------
(* Claims on lookups that find nothing *)

\* C11: resolving a slug that no file of an existing category carries, with or
\* without a subcategory hint, throws the not-found error that names the
\* category, the subcategory and the slug of the request; no document is
\* returned and the content tree is left as it was.
C11_NotFoundNamesRequest ==
    [][(/\ IsResolve(last')
        /\ isDirectory(fs, <<last'.category>>)
        /\ Candidates(last'.category, last'.slug) = {})
       => /\ last'.result = [threw |-> TRUE, error |-> "Post not found",
                             category |-> last'.category,
                             subcategory |-> last'.subcategory,
                             slug |-> last'.slug]
          /\ fs' = fs]_vars

\* A lookup with a hint failed in a category that holds documents of another
\* slug, one of them in the hinted subdirectory.
C11_Witness ==
    /\ IsResolve(last)
    /\ last.subcategory # Undefined
    /\ Candidates(last.category, last.slug) = {}
    /\ isDirectory(fs, <<last.category, last.subcategory>>)
    /\ last.result.threw
    /\ last.result.error = "Post not found"
    /\ last.result.subcategory = last.subcategory

----------------------------------------------------------------------------
(* Claims on the enumerator and the listings *)

IsPrefixOf(d, p) == Len(d) <= Len(p) /\ SubSeq(p, 1, Len(d)) = d

\* The .mdx files of the content tree under directory d, at any depth
MdxUnder(d) ==
    {p \in DOMAIN fs.files : IsPrefixOf(d, p) /\ endsWithMdx(p[Len(p)])}

ListedDir(l) ==
    IF l.op = "getAllPosts" THEN <<>> ELSE <<l.category>>
IsListing(l) ==
    /\ l.op \in {"getAllPosts", "getPostsByCategory"}
    /\ isDirectory(fs, ListedDir(l))

\* C12: every entry that getPostsByCategory(C) returns for a category directory
\* C has category C, at whatever depth under C its file lies and whatever
\* category field the header of the file declares.
C12_ListedCategoryIsRequested ==
    (last.op = "getPostsByCategory" /\ ~last.result.threw) =>
        \A i \in DOMAIN last.result.posts :
            last.result.posts[i].category = last.category

\* The category listed holds a file three directories deep and a file whose
\* header declares another category.
C12_Witness ==
    /\ last.op = "getPostsByCategory"
    /\ ~last.result.threw
    /\ Len(last.result.posts) >= 2
    /\ \E p \in MdxUnder(<<last.category>>) : Len(p) = 4
    /\ \E p \in MdxUnder(<<last.category>>) :
           /\ "category" \in DOMAIN fs.files[p].header
           /\ fs.files[p].header.category # last.category

\* C13: walking the content root or a category directory, the enumerator
\* returns one tuple for each .mdx file under it at any depth and none for a
\* file of another extension; the category of a tuple is the top-level
\* directory of its file and the subcategory the second-level directory, absent
\* for a file directly under the category directory.
C13_OneTuplePerMdxFile ==
    \A d \in {<<>>} \cup {<<c>> : c \in Categories} :
        isDirectory(fs, d) =>
            LET fl == getFilesRecursively(fs, d)
            IN  /\ {fl[i].filePath : i \in DOMAIN fl} = MdxUnder(d)
                /\ Len(fl) = Cardinality(MdxUnder(d))
                /\ \A i \in DOMAIN fl :
                       LET q == fl[i].filePath
                       IN  /\ fl[i].category = q[1]
                           /\ fl[i].subcategory =
                                  IF Len(q) >= 3 THEN q[2] ELSE Undefined

\* The whole tree was listed while it held a file of another extension, an
\* .mdx file three directories deep and an .mdx file directly under a category.
C13_Witness ==
    /\ last.op = "getAllPosts"
    /\ ~last.result.threw
    /\ Len(last.result.posts) = 2
    /\ \E p \in DOMAIN fs.files : ~endsWithMdx(p[Len(p)])
    /\ \E p \in MdxUnder(<<>>) : Len(p) = 4
    /\ \E p \in MdxUnder(<<>>) : Len(p) = 2

\* C14: a listing (getAllPosts, getPostsByCategory) over a tree in which the
\* header of a file is malformed does not fail: it returns one entry for every
\* other document.
C14_ListingSkipsMalformed ==
    IsListing(last) =>
        /\ ~last.result.threw
        /\ Len(last.result.posts) =
               Cardinality({p \in MdxUnder(ListedDir(last)) :
                               ~matterThrows(fs.files[p])})

----------------------------------------------------------------------------
(* Claims on submissions that are refused or fail *)

\* C15: a submission whose category, slug or content is missing or empty is
\* answered with status 400 and changes nothing of the content tree: no file
\* is written and no category directory is created.
C15_MissingFieldRejected ==
    [][\A body \in Bodies :
          (/\ \/ body.category = Undefined
              \/ body.slug = Undefined
              \/ body.content = NoContent
           /\ \E pos \in Positions : handler("POST", body, pos, "ok"))
          => /\ last' = [op |-> "create", status |-> 400, body |-> body]
             /\ fs' = fs]_vars

\* A submission to category guides without a slug was refused while no guides
\* directory existed, after other documents had been created.
C15_Witness ==
    /\ last.op = "create"
    /\ last.status = 400
    /\ last.body.category = guides
    /\ ~existsSync(fs, <<guides>>)
    /\ NumFiles(fs) >= 1

\* C16: a submission whose write fails is answered with status 500 and leaves
\* no file behind: the files of the content tree and their texts are those of
\* before the submission.
C16_FailedWriteLeavesNoFile ==
    [][(last'.op = "create" /\ last'.status = 500) => fs'.files = fs.files]_vars

----------------------------------------------------------------------------
(* Claims on a document opened after its submission *)

\* C17: after a submission to category C that was answered 200 with finalSlug,
\* getPostBySlug(C, finalSlug) returns the document just submitted, with the
\* title, description and date given at creation, whatever the content tree
\* held before, a file of that slug in a subdirectory of C included.
C17_CreatedThenResolved ==
    [][(/\ last.op = "create" /\ last.status = 200
        /\ IsResolve(last')
        /\ last'.category = last.category
        /\ last'.slug = last.slug
        /\ last'.subcategory = Undefined)
       => /\ ~last'.result.threw
          /\ \A title \in PageTitles, content \in PageContents :
                 last.content = stringify(content, [title |-> title,
                                                    description |-> "D1",
                                                    date |-> Today])
                 => /\ last'.result.source = content
                    /\ last'.result.frontMatter.title = title
                    /\ last'.result.frontMatter.description = "D1"
                    /\ last'.result.frontMatter.date = Today]_vars

----------------------------------------------------------------------------
(* Claims on authentication *)

\* C18: a request that carries no session never creates a document file,
\* whether it asks for the /new-document page or posts to
\* /api/create-document.
C18_NoSessionNoDocument ==
    [][~http'.hasSession => DOMAIN fs'.files = DOMAIN fs.files]_vars

\* C19: a request without a session for a path that starts with /new-document
\* is never passed through by the middleware: it is redirected to /login,
\* whether the session lookup returns no session or throws, and when the lookup
\* returns no session the redirect carries redirectTo = the path asked for.
C19_ProtectedRedirectsToLogin ==
    (/\ http # NoExchange
     /\ http.path[1] = "/new-document"
     /\ ~http.hasSession)
    => /\ http.matched
       /\ http.response.kind = "redirect"
       /\ http.response.to = p_login
       /\ ~http.lookupThrows => http.response.redirectTo = http.path

\* A path under /new-document was asked for without a session and the lookup
\* returned no session.
C19_Witness ==
    /\ http # NoExchange
    /\ http.path = p_new_document_sub
    /\ ~http.hasSession
    /\ ~http.lookupThrows
    /\ http.response = Redirect(p_login, p_new_document_sub)

----------------------------------------------------------------------------
(* Claims on the new-doc script *)

\* C20: a run of the new-doc script that creates a document changes no
\* document that existed: the text of every file is the one of before the run
\* and the new document is a file whose name was not in use.
C20_ScriptNeverOverwrites ==
    [][(last'.op = "new-doc" /\ last'.created)
       => /\ \A p \in DOMAIN fs.files :
                 p \in DOMAIN fs'.files /\ fs'.files[p] = fs.files[p]
          /\ \E p \in DOMAIN fs'.files : p \notin DOMAIN fs.files]_vars

----------------------------------------------------------------------------
(* Claims on redirects and the login flow *)

IsRedirect(h) == h # NoExchange /\ h.response.kind = "redirect"
IsPassed(h) == h # NoExchange /\ h.response.kind = "next"

\* C21: the middleware never redirects a request to the path it was made for,
\* and a browser that follows the redirects of the middleware reaches a
\* response that is passed through.
C21_RedirectsTerminate ==
    /\ [](IsRedirect(http) => http.response.to # http.path)
    /\ (IsRedirect(http) ~> IsPassed(http))

----------------------------------------------------------------------------
(* Claims on what the middleware passes through *)

UnderNewDocument(path) == path[1] = "/new-document"

\* C23: when the session lookup throws, a request for a path under
\* /new-document is redirected to /login and a request for any other path is
\* passed through, with or without a session.
C23_LookupFailureBlocksOnlyProtected ==
    (http # NoExchange /\ http.lookupThrows) =>
        IF UnderNewDocument(http.path)
        THEN http.response = Redirect(p_login, Undefined)
        ELSE http.response = NextResponse

\* The home page was asked for with a session, the lookup threw, and the
\* request was passed through.
C23_Witness ==
    /\ http # NoExchange
    /\ http.lookupThrows
    /\ http.matched
    /\ http.hasSession
    /\ http.path = p_root
    /\ http.response = NextResponse

\* C24, as stated: a request without a session for a path that is not under
\* /new-document is passed through, and a request with a session is redirected
\* only when its path is one of '/', '/login', '/signup'.
C24_RedirectOnlyAuthPages ==
    http # NoExchange =>
        /\ (~http.hasSession /\ ~UnderNewDocument(http.path))
               => http.response = NextResponse
        /\ (http.hasSession /\ http.response.kind = "redirect")
               => http.path \in {p_root, p_login, p_signup}

\* C24, amended: a request without a session for a path that is not under
\* /new-document is passed through, and a request whose session the lookup
\* returns is redirected only when its path is one of '/', '/login', '/signup';
\* a request with a session whose lookup throws is still redirected to /login
\* when its path is under /new-document.
C24_RedirectOnlyAuthPagesWhenRead ==
    http # NoExchange =>
        /\ (~http.hasSession /\ ~UnderNewDocument(http.path))
               => http.response = NextResponse
        /\ (http.hasSession /\ ~http.lookupThrows /\ http.response.kind = "redirect")
               => http.path \in {p_root, p_login, p_signup}
        /\ (http.hasSession /\ http.lookupThrows /\ http.response.kind = "redirect")
               => UnderNewDocument(http.path)

\* A content page was asked for with a session that the lookup returned, and
\* the request was passed through.
C24_Witness ==
    /\ http # NoExchange
    /\ http.matched
    /\ http.hasSession
    /\ ~http.lookupThrows
    /\ http.path = p_guides
    /\ http.response = NextResponse

----------------------------------------------------------------------------
(* Claims on the order of siblings and the walk along next *)

\* C25: the comparator of the sort is a consistent order on the siblings: it
\* is transitive on them, and in the sorted sibling sequence every earlier
\* element compares less than or equal to every later one.
C25_ComparatorConsistent ==
    isDirectory(fs, <<guides>>) =>
        \A subcategory \in NavHints :
            LET sorted == sortedPosts(fs, guides, subcategory)
            IN  /\ \A i, j, k \in DOMAIN sorted :
                       (comparePosts(sorted[i], sorted[j]) < 0
                           /\ comparePosts(sorted[j], sorted[k]) < 0)
                       => comparePosts(sorted[i], sorted[k]) < 0
                /\ \A i, j \in DOMAIN sorted :
                       i < j => comparePosts(sorted[i], sorted[j]) <= 0

\* The slugs met from slug on by following next, n steps at most
RECURSIVE WalkNext(_, _, _)
WalkNext(subcategory, slug, n) ==
    LET a == getAdjacentPosts(fs, guides, slug, subcategory)
    IN  IF n = 0 \/ a.next = Null THEN <<slug>>
        ELSE <<slug>> \o WalkNext(subcategory, a.next.slug, n - 1)

\* C26: in a sibling set of pairwise distinct slugs exactly one document has
\* prev = null and exactly one has next = null, and the walk that starts at the
\* former and follows next visits every document of the set once and ends at
\* the latter.
C26_WalkVisitsAllOnce ==
    IsAdjacent(last) =>
        LET subcategory == last.subcategory
            sorted == Siblings(last)
            slugs == SlugsOf(sorted)
            first == {S \in slugs :
                        getAdjacentPosts(fs, guides, S, subcategory).prev = Null}
            final == {S \in slugs :
                        getAdjacentPosts(fs, guides, S, subcategory).next = Null}
        IN  (sorted # <<>> /\ Cardinality(slugs) = Len(sorted)) =>
                /\ Cardinality(first) = 1
                /\ Cardinality(final) = 1
                /\ \A S \in first :
                       LET walk == WalkNext(subcategory, S, Len(sorted))
                       IN  /\ Len(walk) = Len(sorted)
                           /\ Range(walk) = slugs
                           /\ walk[Len(walk)] \in final

\* The first document of a sibling set of three distinct slugs was asked for.
C26_Witness ==
    /\ IsAdjacent(last)
    /\ Len(Siblings(last)) = 3
    /\ Cardinality(SlugsOf(Siblings(last))) = 3
    /\ last.result.prev = Null
    /\ last.result.next # Null

----------------------------------------------------------------------------
(* Claims on the subcategory of a document and on the pages generated *)

\* C27: the listing and the resolver report the same subcategory for a
\* document: when one file of the category carries the slug resolved, the
\* subcategory of the listing's entry for it is the one the resolver returns,
\* at any directory depth.
C27_SubcategoryAgrees ==
    (/\ IsResolve(last)
     /\ ~last.result.threw
     /\ Cardinality(Candidates(last.category, last.slug)) = 1)
    => LET posts == getPostsByCategory(fs, last.category)
       IN  \A i \in DOMAIN posts :
               posts[i].slug = last.slug
               => posts[i].subcategory = last.result.frontMatter.subcategory

\* C28: getPostBySlug('guides', slug, subcategory) succeeds for every
\* (subcategory, slug) that getStaticPaths of the guides post page generates,
\* whatever the content tree holds.
C28_GeneratedPathsResolve ==
    (last.op = "build" /\ ~last.threw) =>
        \A i \in DOMAIN last.paths : ~last.props[i].threw

----------------------------------------------------------------------------
(* Claims on where documents are created *)

FixedCategories == {guides, concepts, references}

\* C29: every document the create-document handler stores is under one of the
\* fixed categories guides, concepts, references.
C29_CreatedUnderFixedCategory ==
    (last.op = "create" /\ last.status = 200) => last.category \in FixedCategories

\* C30: a run of the new-doc script with a category other than guides,
\* concepts, references changes neither files nor directories, reports the
\* error and closes the prompt; a run with one of them leaves the file
\* '<slugified title>.mdx' in the directory of the category, changes no other
\* file, and does so whether or not the editor command fails.
C30_ScriptWritesOneFileOrNone ==
    [][last'.op = "new-doc"
       => IF last'.category \notin FixedCategories
          THEN fs' = fs /\ last'.error /\ last'.closed
          ELSE LET slug == slugify(last'.title)
                   p == <<last'.category, slug \o <<MDX>>>>
               IN  /\ p \in DOMAIN fs'.files
                   /\ DOMAIN fs'.files = DOMAIN fs.files \cup {p}
                   /\ \A q \in DOMAIN fs.files \ {p} : fs'.files[q] = fs.files[q]
                   /\ last'.closed]_vars

\* A run for a valid category whose editor command failed, the file it wrote
\* in place.
C30_Witness ==
    /\ last.op = "new-doc"
    /\ last.category = concepts
    /\ last.created
    /\ last.error
    /\ <<concepts, last.slug \o <<MDX>>>> \in DOMAIN fs.files

====
